---------------------------- MODULE Spec2Model ----------------------------
(***************************************************************************)
(* A model of the shader gallery's rendering core (the ShaderCanvas React  *)
(* component, its WebGL helpers and the catalog) and of the page that      *)
(* drives it.                                                              *)
(*                                                                         *)
(* Numbers: a parameter value v of the catalog is the integer              *)
(* v * UnitsPerOne (the catalog's finest step is 0.05); times are whole    *)
(* milliseconds, so the u_time upload is in thousandths of a second.       *)
(* Pointer coordinates are thousandths of the canvas extent.               *)
(*                                                                         *)
(* React: one commit (mount, a re-render with new props, unmount) runs the *)
(* cleanups of the effects whose dependencies changed and then those       *)
(* effects, in declaration order, before any other callback; it is one     *)
(* action.  A frame callback, a DOM event and a clock tick are one action  *)
(* each.  The outcome of a compile or a link is the driver's: it is chosen *)
(* anew at every commit that builds (RunInputs).                           *)
(***************************************************************************)
EXTENDS Integers, Sequences, FiniteSets, TLC

\* ------------------------------------------------------------------ bounds
\* executions of the main effect (the mount and its re-runs) in one behaviour
MaxRuns == 3
\* seconds the clock may advance
MaxTime == 2
\* refreshes of the display in one behaviour
MaxRefreshes == 33

\* parameter values are counted in 1/UnitsPerOne (0.05 is one unit)
UnitsPerOne == 20

\* ----------------------------------------------------------------- catalog
Uniform(n, t, lo, hi, st, d) ==
  [name |-> n, type |-> t, min |-> lo, max |-> hi, step |-> st, defaultValue |-> d]

\* The standard uniforms every fragment source declares.
StandardUniforms == {"u_time", "u_resolution", "u_mouse"}

plasmaShader ==
  [id |-> "plasma", name |-> "Plasma Waves",
   uniforms |-> << Uniform("u_speed", "float", 10, 40, 2, 20),
                   Uniform("u_scale", "float", 20, 200, 10, 80),
                   Uniform("u_colorShift", "float", 0, 20, 1, 10) >>,
   declared |-> StandardUniforms \cup {"u_speed", "u_scale", "u_colorShift"}]

sphereShader ==
  [id |-> "sphere", name |-> "Raymarched Sphere",
   uniforms |-> << Uniform("u_rotationSpeed", "float", 0, 40, 2, 10),
                   Uniform("u_glossiness", "float", 2, 20, 1, 10),
                   Uniform("u_sphereScale", "float", 10, 30, 2, 20) >>,
   declared |-> StandardUniforms \cup {"u_rotationSpeed", "u_glossiness", "u_sphereScale"}]

noiseShader ==
  [id |-> "noise", name |-> "Fractal Noise",
   uniforms |-> << Uniform("u_octaves", "int", 20, 120, 20, 80),
                   Uniform("u_persistence", "float", 6, 14, 1, 10),
                   Uniform("u_zoom", "float", 20, 100, 5, 40) >>,
   declared |-> StandardUniforms \cup {"u_octaves", "u_persistence", "u_zoom"}]

kaleidoscopeShader ==
  [id |-> "kaleidoscope", name |-> "Kaleidoscope",
   uniforms |-> << Uniform("u_segments", "int", 80, 320, 20, 160),
                   Uniform("u_rotationSpeed", "float", 0, 40, 2, 10),
                   Uniform("u_zoom", "float", 10, 60, 2, 30) >>,
   declared |-> StandardUniforms \cup {"u_segments", "u_rotationSpeed", "u_zoom"}]

auroraShader ==
  [id |-> "aurora", name |-> "Aurora Borealis",
   uniforms |-> << Uniform("u_intensity", "float", 10, 40, 2, 20),
                   Uniform("u_speed", "float", 10, 40, 2, 20),
                   Uniform("u_waveHeight", "float", 6, 20, 1, 12) >>,
   declared |-> StandardUniforms \cup {"u_intensity", "u_speed", "u_waveHeight"}]

SHADERS ==
  << plasmaShader, sphereShader, noiseShader, kaleidoscopeShader, auroraShader >>

ShaderIds == {SHADERS[i].id : i \in 1..Len(SHADERS)}

\* Variant of getShaderById that returns the first shader for an unknown id.
getShaderByIdOrFirst(id) ==
  LET hits == {i \in 1..Len(SHADERS) : SHADERS[i].id = id}
  IN  IF hits = {} THEN << SHADERS[1] >>
      ELSE << SHADERS[CHOOSE i \in hits : \A j \in hits : i <= j] >>

\* SHADERS.find(shader => shader.id === id): << the first match >>, or << >>
\* for undefined.
getShaderById(id) ==
  LET hits == {i \in 1..Len(SHADERS) : SHADERS[i].id = id}
  IN  IF hits = {} THEN << >>
      ELSE << SHADERS[CHOOSE i \in hits : \A j \in hits : i <= j] >>

\* A Record<string, number>: a function from a finite set of names.
EmptyMap == [n \in {} |-> 0]

Put(m, k, v) == [n \in DOMAIN m \cup {k} |-> IF n = k THEN v ELSE m[n]]

RECURSIVE DefaultsFrom(_, _)
DefaultsFrom(us, i) ==
  IF i > Len(us) THEN EmptyMap
  ELSE LET rest == DefaultsFrom(us, i + 1)
       IN  \* a later uniform of the same name overwrites an earlier one
           IF us[i].name \in DOMAIN rest THEN rest
           ELSE Put(rest, us[i].name, us[i].defaultValue)

getDefaultUniforms(shader) == DefaultsFrom(shader.uniforms, 1)


\* the null handle
NoHandle == [run |-> 0, site |-> "null", build |-> 0]

\* ------------------------------------------------------------------- state
VARIABLES
  phase,              \* "unmounted", "mounted" or "disposed" (the component's life)
  now,                \* performance.now(), in milliseconds
  shaderId,           \* prop: the selected shader id (the page's state)
  uniforms,           \* prop: the ParameterValues map (the page's state)
  showDebug,          \* prop: the debug-overlay flag (the page's state)
  error,              \* the page's error state, set by onError = setError
  glRef,              \* TRUE when glRef.current holds the context
  programRef,         \* programRef.current: a program handle, or NoHandle for null
  vaoRef,             \* vaoRef.current: a vertex-array handle, or NoHandle
  animationFrameRef,  \* animationFrameRef.current: the id of the last request
  startTimeRef,       \* startTimeRef.current
  fpsMonitorRef,      \* fpsMonitorRef.current: [samples, lastTime, currentFPS]
  hasErrorRef,        \* hasErrorRef.current
  targetMouseRef,     \* targetMouseRef.current: [x, y]
  currentMouseRef,    \* currentMouseRef.current: [x, y]
  uniformsRef,        \* uniformsRef.current
  showDebugRef,       \* showDebugRef.current
  cleanup,            \* the cleanup the main effect's last run returned, if any
  pending,            \* the frame callbacks requested and not yet run or cancelled
  canvas,             \* the canvas element's [width, height]
  parent,             \* the container's bounding rectangle [width, height]
  overlays,           \* the debug canvases attached to the container
  gl,                 \* the device: its live objects and the viewport
  runs,               \* how many times the main effect has run
  last,               \* history: what the last step did (its builds, its error
                      \* reports, its frames) and what it started from
  initialBuildFailed  \* history: the main effect's build at the mount failed

vars ==
  << phase, now, shaderId, uniforms, showDebug, error, glRef, programRef, vaoRef,
     animationFrameRef, startTimeRef, fpsMonitorRef, hasErrorRef, targetMouseRef,
     currentMouseRef, uniformsRef, showDebugRef, cleanup, pending, canvas, parent,
     overlays, gl, runs, last, initialBuildFailed >>

\* The state an effect or a callback reads and writes, as one record, so that the
\* calls of one commit can be applied one after the other.
Cur ==
  [error |-> error, glRef |-> glRef, programRef |-> programRef, vaoRef |-> vaoRef,
   animationFrameRef |-> animationFrameRef, startTimeRef |-> startTimeRef,
   fpsMonitorRef |-> fpsMonitorRef, hasErrorRef |-> hasErrorRef,
   targetMouseRef |-> targetMouseRef, currentMouseRef |-> currentMouseRef,
   uniformsRef |-> uniformsRef, showDebugRef |-> showDebugRef, cleanup |-> cleanup,
   pending |-> pending, canvas |-> canvas, parent |-> parent, overlays |-> overlays,
   gl |-> gl, runs |-> runs,
   builds |-> << >>, reports |-> << >>, frames |-> << >>, h |-> NoHandle, ok |-> TRUE,
   stages |-> << >>, console |-> << >>, errors |-> << >>]

\* What a step started from, kept in `last`: whether the error flag was set,
\* whether a program was held, whether a frame callback was pending.
Snapshot ==
  [hasErrorRef |-> hasErrorRef, program |-> programRef # NoHandle,
   loop |-> pending # {}]

\* The step `op` ends in s; `changed` tells whether it changed the shader id.
Commit(s, op, changed) ==
  \E c \in {s} :
    /\ error' = c.error
    /\ glRef' = c.glRef
    /\ programRef' = c.programRef
    /\ vaoRef' = c.vaoRef
    /\ animationFrameRef' = c.animationFrameRef
    /\ startTimeRef' = c.startTimeRef
    /\ fpsMonitorRef' = c.fpsMonitorRef
    /\ hasErrorRef' = c.hasErrorRef
    /\ targetMouseRef' = c.targetMouseRef
    /\ currentMouseRef' = c.currentMouseRef
    /\ uniformsRef' = c.uniformsRef
    /\ showDebugRef' = c.showDebugRef
    /\ cleanup' = c.cleanup
    /\ pending' = c.pending
    /\ canvas' = c.canvas
    /\ parent' = c.parent
    /\ overlays' = c.overlays
    /\ gl' = c.gl
    /\ runs' = c.runs
    /\ last' = [op |-> op, changed |-> changed, builds |-> c.builds,
                 reports |-> c.reports, frames |-> c.frames, before |-> Snapshot]
    /\ initialBuildFailed' =
         IF op = "mount"
           THEN c.builds # << >> /\ c.builds[1].result # "ok"
           ELSE initialBuildFailed

NoCleanup == [registered |-> FALSE, run |-> 0, debugCanvas |-> FALSE]

\* ------------------------------------------------------------------ device
\* A handle names the object by where it was created: the run of the main effect,
\* the creating call ("vao", "buffer", "vertex", "fragment", "program") and the
\* number of builds that commit had finished before.  Every create call thus
\* returns a handle no earlier call returned.
NewHandle(s, site) == [run |-> s.runs, site |-> site, build |-> Len(s.builds)]

\* gl.create*: a fresh object of the given kind ("programs", "vaos", "shaders",
\* "buffers"); a program created while another one is live is recorded.
GlCreate(s, kind, site) ==
  [s EXCEPT !.gl = [@ EXCEPT ![kind] = @ \cup {NewHandle(s, site)},
                             !.overlaps = IF kind = "programs" /\ s.gl.programs # {}
                                            THEN @ \cup {NewHandle(s, site)}
                                            ELSE @]]

\* gl.delete*: the object is released; deleting one that is not live is recorded.
GlDelete(s, kind, h) ==
  [s EXCEPT !.gl = [@ EXCEPT ![kind] = @ \ {h},
                             !.linked = [p \in DOMAIN @ \ {h} |-> @[p]],
                             !.badDeletes = IF h \in s.gl[kind] THEN @ ELSE @ \cup {h}]]

\* Variant of Report that calls the error callback twice.
ReportTwice(s, msg) ==
  [s EXCEPT !.error = msg, !.reports = Append(Append(@, msg), msg),
            !.errors = Append(Append(@, msg), msg)]

\* onError?.(error): the page's setError
Report(s, msg) ==
  [s EXCEPT !.error = msg, !.reports = Append(@, msg), !.errors = Append(@, msg)]

\* console.error(...): the line is appended to the console of the running build
ConsoleError(s, line) == [s EXCEPT !.console = Append(@, line)]

\* ----------------------------------------------------------- webgl-utils.ts
\* gl.getShaderInfoLog / gl.getProgramInfoLog of a stage that failed: the
\* driver's diagnostic text
InfoLog(stage) == "ERROR: 0:1: " \o stage \o " rejected by the driver"

\* A stage of the build starts: it is noted in the stages the build attempted.
Attempt(s, stage) == [s EXCEPT !.stages = Append(@, stage)]

\* Variant of compileShader that keeps the shader object of a failed compile.
compileShaderLeaks(s, site, compiles) ==
  LET h  == NewHandle(s, site)
      s1 == GlCreate(Attempt(s, site), "shaders", site)
  IN  IF ~compiles
        THEN [ConsoleError(s1, "Shader compilation error: " \o InfoLog(site))
                EXCEPT !.h = NoHandle]
        ELSE [s1 EXCEPT !.h = h]

\* compileShader: a shader object is created; when the compile fails it is
\* deleted and null is returned (in s.h).
compileShader(s, site, compiles) ==
  LET h  == NewHandle(s, site)
      s1 == GlCreate(Attempt(s, site), "shaders", site)
  IN  IF ~compiles
        THEN [GlDelete(ConsoleError(s1, "Shader compilation error: " \o InfoLog(site)),
                       "shaders", h)
                EXCEPT !.h = NoHandle]
        ELSE [s1 EXCEPT !.h = h]

\* Variant of createProgram that keeps the program object of a failed link.
createProgramKeepsFailed(s, id, links) ==
  LET h  == NewHandle(s, "program")
      s1 == GlCreate(Attempt(s, "link"), "programs", "program")
  IN  IF ~links
        THEN [ConsoleError(s1, "Program link error: " \o InfoLog("link"))
                EXCEPT !.h = NoHandle]
        ELSE [s1 EXCEPT !.h = h, !.gl.linked = Put(@, h, id)]

\* createProgram: a program object is created and linked from the fragment source
\* of shader `id`; when the link fails it is deleted and null is returned.
createProgram(s, id, links) ==
  LET h  == NewHandle(s, "program")
      s1 == GlCreate(Attempt(s, "link"), "programs", "program")
  IN  IF ~links
        THEN [GlDelete(ConsoleError(s1, "Program link error: " \o InfoLog("link")),
                       "programs", h)
                EXCEPT !.h = NoHandle]
        ELSE [s1 EXCEPT !.h = h, !.gl.linked = Put(@, h, id)]

\* createFullscreenQuad: a vertex array and its buffer; null when the vertex
\* array cannot be created.  Nothing deletes the buffer.
createFullscreenQuad(s, created) ==
  IF ~created THEN [s EXCEPT !.h = NoHandle]
  ELSE [GlCreate(GlCreate(s, "vaos", "vao"), "buffers", "buffer")
          EXCEPT !.h = NewHandle(s, "vao")]

\* The uniforms of a linked program: those its fragment source declares.
ActiveUniforms(s, program) ==
  IF program \in DOMAIN s.gl.linked
    THEN LET def == getShaderById(s.gl.linked[program])
         IN  IF def = << >> THEN {} ELSE def[1].declared
    ELSE {}

\* gl.uniform1i converts its argument to an integer (toward zero).
ToInt(v) ==
  IF v >= 0 THEN (v \div UnitsPerOne) * UnitsPerOne
  ELSE 0 - (((0 - v) \div UnitsPerOne) * UnitsPerOne)

\* Variant of setUniform that does not look the uniform up in the program.
setUniformUnchecked(s, u, program, name, type, value) ==
  Put(u, name, [type |-> type,
                value |-> IF type = "int" THEN ToInt(value) ELSE value])

\* setUniform: nothing when the program has no such uniform; u is the uploads
\* of the frame so far, name -> [type, value].
setUniform(s, u, program, name, type, value) ==
  IF name \notin ActiveUniforms(s, program) THEN u
  ELSE Put(u, name, [type |-> type,
                     value |-> IF type = "int" THEN ToInt(value) ELSE value])

\* ---------------------------------------------------------- shader-canvas
FPS_SAMPLE_SIZE == 30

\* the smoothing factor passed to lerp, 0.1, in thousandths
SmoothingFactor == 100

\* The quotient n / d rounded to the nearest integer (d > 0), as the arithmetic
\* rounds a result to the nearest value it can hold.
RoundDiv(n, d) == (2 * n + d) \div (2 * d)

\* Variant of lerp that goes as far beyond b as a was short of it.
lerpOvershoots(a, b, t) == a + 2 * (b - a)

\* lerp(a, b, t) = a + (b - a) * t, with t in thousandths and the product rounded
\* to the nearest unit of a and b
lerp(a, b, t) == a + RoundDiv((b - a) * t, 1000)

createFPSMonitor(t) == [samples |-> << >>, lastTime |-> t, currentFPS |-> 60]

RECURSIVE SumSeq(_)
SumSeq(q) == IF q = << >> THEN 0 ELSE Head(q) + SumSeq(Tail(q))

\* Variant of updateFPSMonitor that keeps every sample.
updateFPSMonitorKeepsAll(monitor, t) ==
  LET delta == t - monitor.lastTime
  IN  IF delta > 0
        THEN LET samples == Append(monitor.samples, 1000 \div delta)
             IN  [samples |-> samples, lastTime |-> t,
                  currentFPS |-> SumSeq(samples) \div Len(samples)]
        ELSE [monitor EXCEPT !.lastTime = t]

\* updateFPSMonitor at time t: the monitor after the call
updateFPSMonitor(monitor, t) ==
  LET delta == t - monitor.lastTime
  IN  IF delta > 0
        THEN LET pushed  == Append(monitor.samples, 1000 \div delta)
                 samples == IF Len(pushed) > FPS_SAMPLE_SIZE THEN Tail(pushed) ELSE pushed
             IN  [samples |-> samples, lastTime |-> t,
                  currentFPS |-> SumSeq(samples) \div Len(samples)]
        ELSE [monitor EXCEPT !.lastTime = t]

\* What one call of initShader did, for `last`: the shader, the outcome, the
\* stages it attempted, what it wrote to the console and the errors it reported.
BuildLog(s, id, result) ==
  [shader |-> id, result |-> result, stages |-> s.stages, console |-> s.console,
   errors |-> s.errors]

\* Variant of deleteExistingProgram that deletes the program and keeps the ref.
deleteExistingProgramKeepsRef(s) ==
  IF s.programRef # NoHandle THEN GlDelete(s, "programs", s.programRef) ELSE s

\* Variant of deleteExistingProgram that keeps the program.
keepExistingProgram(s) == s

\* initShader's first step: the program held, if any, is deleted.
deleteExistingProgram(s) ==
  IF s.programRef # NoHandle
    THEN [GlDelete(s, "programs", s.programRef) EXCEPT !.programRef = NoHandle]
    ELSE s

\* Variant of installProgram that sets the error flag.
installProgramRaisesFlag(s, id, program) ==
  [s EXCEPT !.programRef = program, !.hasErrorRef = TRUE, !.ok = TRUE,
            !.builds = Append(@, BuildLog(s, id, "ok"))]

\* Variant of installProgram that leaves the error flag as it was.
installProgramKeepsFlag(s, id, program) ==
  [s EXCEPT !.programRef = program, !.ok = TRUE,
            !.builds = Append(@, BuildLog(s, id, "ok"))]

\* The end of a build that linked: the program becomes the active one and the
\* error flag is cleared.
installProgram(s, id, program) ==
  [s EXCEPT !.programRef = program, !.hasErrorRef = FALSE, !.ok = TRUE,
            !.builds = Append(@, BuildLog(s, id, "ok"))]

\* initShader for the shader id of the render it was created in; `outcome` is
\* what the driver makes of this attempt: "ok", or the stage that fails.
\* The return value is s.ok.
initShader(s, id, outcome) ==
  IF ~s.glRef THEN [s EXCEPT !.ok = FALSE]
  ELSE
    LET s1 == [deleteExistingProgram(s)
                 EXCEPT !.stages = << >>, !.console = << >>, !.errors = << >>]
        shaderDef == getShaderById(id)
        Fail(t, result, msg) ==
          LET logged == ConsoleError(t, msg)
              told   == Report(logged, msg)
          IN  [told EXCEPT !.hasErrorRef = TRUE, !.ok = FALSE,
                           !.builds = Append(@, BuildLog(told, id, result))]
    IN  IF shaderDef = << >> THEN Fail(s1, "notfound", "Shader not found: " \o id)
        ELSE
          LET v == compileShader(s1, "vertex", outcome # "vertex")
          IN  IF v.h = NoHandle THEN Fail(v, "vertex", "Failed to compile vertex shader")
              ELSE
                LET f == compileShader(v, "fragment", outcome # "fragment")
                IN  IF f.h = NoHandle
                      THEN Fail(GlDelete(f, "shaders", v.h), "fragment",
                                "Failed to compile fragment shader: " \o shaderDef[1].name)
                      ELSE
                        LET p == createProgram(f, id, outcome # "link")
                            d == GlDelete(GlDelete(p, "shaders", v.h), "shaders", f.h)
                        IN  IF p.h = NoHandle
                              THEN Fail(d, "link",
                                        "Failed to link shader program: " \o shaderDef[1].name)
                              ELSE installProgram(d, id, p.h)

\* Variant of handleResize that also cancels the frame callbacks requested.
handleResizeDropsFrames(s) ==
  LET s1 == [s EXCEPT !.canvas = s.parent, !.pending = {}]
  IN  IF s.glRef
        THEN [s1 EXCEPT !.gl.viewport = << 0, 0, s.parent.width, s.parent.height >>]
        ELSE s1

\* Variant of handleResize that leaves the viewport as it was.
handleResizeKeepsViewport(s) == [s EXCEPT !.canvas = s.parent]

\* handleResize: the canvas takes the container's size; the viewport follows
\* when the context is held.
handleResize(s) ==
  LET s1 == [s EXCEPT !.canvas = s.parent]
  IN  IF s.glRef
        THEN [s1 EXCEPT !.gl.viewport = << 0, 0, s.parent.width, s.parent.height >>]
        ELSE s1

\* Variant of handleMouseMove that moves the smoothed position too.
handleMouseMoveSnaps(s, px, py) ==
  [s EXCEPT !.targetMouseRef = [x |-> px, y |-> 1000 - py],
            !.currentMouseRef = [x |-> px, y |-> 1000 - py]]

\* handleMouseMove / handleTouchMove for a pointer at fraction (px, py) of the
\* canvas rectangle, measured from its top-left corner, in thousandths
handleMouseMove(s, px, py) ==
  [s EXCEPT !.targetMouseRef = [x |-> px, y |-> 1000 - py]]

handleTouchMove(s, touches, px, py) ==
  IF touches = 0 THEN s
  ELSE [s EXCEPT !.targetMouseRef = [x |-> px, y |-> 1000 - py]]

\* name.includes(sub)
Includes(name, sub) ==
  \E i \in 1..(Len(name) - Len(sub) + 1) : SubSeq(name, i, i + Len(sub) - 1) = sub

\* Variant of isInt that knows only the first of the two name fragments.
isIntOctaveOnly(name) == Includes(name, "octave")

\* render's name convention for integer uniforms
isInt(name) == Includes(name, "octave") \/ Includes(name, "segment")

\* render's loop over Object.entries(currentUniforms)
RECURSIVE UploadEntries(_, _, _, _, _)
UploadEntries(s, u, program, m, names) ==
  IF names = {} THEN u
  ELSE LET name == CHOOSE n \in names : TRUE
       IN  UploadEntries(s,
             setUniform(s, u, program, name,
                        IF isInt(name) THEN "int" ELSE "float", m[name]),
             program, m, names \ {name})

FallbackColor == << 2, 2, 5, 100 >>   \* clearColor(0.02, 0.02, 0.05, 1.0), in hundredths

\* Variant of RequestFrame that requests nothing.
RequestFrameNone(s, loop) == s

\* requestAnimationFrame(render) by the loop `loop`, the id kept in the ref
RequestFrame(s, loop) ==
  [s EXCEPT !.pending = @ \cup {loop}, !.animationFrameRef = loop.run]

\* Variant of renderFallback that draws with whatever is bound and does not ask
\* for the next frame.
renderFallbackOnce(s, loop) ==
  LET frame == [kind |-> IF s.hasErrorRef THEN "fallback" ELSE "idle",
                clear |-> IF s.hasErrorRef THEN << FallbackColor >> ELSE << >>,
                program |-> NoHandle, vao |-> NoHandle, live |-> TRUE,
                uploads |-> EmptyMap,
                draws |-> << [mode |-> "TRIANGLES", count |-> 6] >>,
                overlay |-> << >>,
                fpsUpdated |-> FALSE, smoothed |-> FALSE, requests |-> 0]
  IN  [s EXCEPT !.frames = Append(@, frame)]

\* render when there is no program, no geometry or the error flag is set: the
\* fallback clear (only with the flag set) and the next request.
renderFallback(s, loop) ==
  LET frame == [kind |-> IF s.hasErrorRef THEN "fallback" ELSE "idle",
                clear |-> IF s.hasErrorRef THEN << FallbackColor >> ELSE << >>,
                program |-> NoHandle, vao |-> NoHandle, live |-> TRUE,
                uploads |-> EmptyMap, draws |-> << >>, overlay |-> << >>,
                fpsUpdated |-> FALSE, smoothed |-> FALSE, requests |-> 1]
  IN  [RequestFrame(s, loop) EXCEPT !.frames = Append(@, frame)]

\* Variant of elapsedTime that counts from the page's time origin.
elapsedSinceLoad(s, t) == t

\* render's time for u_time at time t: (performance.now() - startTimeRef.current)
\* / 1000 seconds, here in thousandths of a second
elapsedTime(s, t) == t - s.startTimeRef

\* render's normal frame at time t
renderNormal(s, loop, t) ==
  LET monitor == updateFPSMonitor(s.fpsMonitorRef, t)
      mouse   == [x |-> lerp(s.currentMouseRef.x, s.targetMouseRef.x, SmoothingFactor),
                  y |-> lerp(s.currentMouseRef.y, s.targetMouseRef.y, SmoothingFactor)]
      time    == elapsedTime(s, t)
      u1 == setUniform(s, EmptyMap, s.programRef, "u_time", "float", time)
      u2 == setUniform(s, u1, s.programRef, "u_resolution", "vec2",
                       << s.canvas.width, s.canvas.height >>)
      u3 == setUniform(s, u2, s.programRef, "u_mouse", "vec2", << mouse.x, mouse.y >>)
      u4 == UploadEntries(s, u3, s.programRef, s.uniformsRef, DOMAIN s.uniformsRef)
      frame == [kind |-> "draw", clear |-> << FallbackColor >>,
                program |-> s.programRef, vao |-> s.vaoRef,
                live |-> s.programRef \in s.gl.programs /\ s.vaoRef \in s.gl.vaos,
                uploads |-> u4, draws |-> << [mode |-> "TRIANGLES", count |-> 6] >>,
                overlay |-> IF s.showDebugRef /\ loop.debugCanvas
                              THEN << monitor.currentFPS >> ELSE << >>,
                fpsUpdated |-> TRUE, smoothed |-> TRUE, requests |-> 1,
                mouse |-> [from |-> s.currentMouseRef, target |-> s.targetMouseRef,
                           to |-> mouse]]
  IN  [RequestFrame(s, loop) EXCEPT !.fpsMonitorRef = monitor,
                                    !.currentMouseRef = mouse,
                                    !.frames = Append(@, frame)]

\* One call of render, at time t, by the loop `loop` (the closure of the main
\* effect's run loop.run, which holds that run's debug canvas, if any).  The
\* frame it produced is appended to s.frames.
render(s, loop, t) ==
  IF s.programRef = NoHandle \/ s.vaoRef = NoHandle \/ s.hasErrorRef
    THEN renderFallback(s, loop)
    ELSE renderNormal(s, loop, t)

\* The main effect's body, run at time t for the shader id of this render.
\* quad: the vertex array can be created; outcome: what the driver makes of the
\* build.
mainEffect(s, id, quad, outcome, t) ==
  LET r == [s EXCEPT !.runs = @ + 1, !.cleanup = NoCleanup]
  IN  IF ~r.gl.supported
        THEN [Report(r, "WebGL2 is not supported in this browser")
                EXCEPT !.hasErrorRef = TRUE]
        ELSE
          LET s1 == handleResize([r EXCEPT !.glRef = TRUE])
              q  == createFullscreenQuad(s1, quad)
          IN  IF q.h = NoHandle
                THEN [Report(q, "Failed to create fullscreen quad")
                        EXCEPT !.hasErrorRef = TRUE]
                ELSE
                  LET s2 == initShader([q EXCEPT !.vaoRef = q.h], id, outcome)
                  IN  IF ~s2.ok THEN s2
                      ELSE
                        LET dbg  == s2.showDebugRef
                            s3   == [s2 EXCEPT !.startTimeRef = t,
                                               !.fpsMonitorRef = createFPSMonitor(t),
                                               !.overlays = IF dbg THEN @ \cup {s2.runs}
                                                                   ELSE @]
                            loop == [run |-> s2.runs, debugCanvas |-> dbg]
                            s4   == render(s3, loop, t)
                        IN  [s4 EXCEPT !.cleanup = [registered |-> TRUE,
                                                    run |-> s2.runs,
                                                    debugCanvas |-> dbg]]

\* Variant of cleanupBody that leaves the program to the device.
cleanupBodyKeepsProgram(s, c) ==
  LET s1 == [s EXCEPT !.pending = {p \in @ : p.run # s.animationFrameRef},
                      !.overlays = IF c.debugCanvas THEN @ \ {c.run} ELSE @]
      s2 == IF s1.vaoRef # NoHandle
              THEN [GlDelete(s1, "vaos", s1.vaoRef) EXCEPT !.vaoRef = NoHandle]
              ELSE s1
  IN  [s2 EXCEPT !.programRef = NoHandle, !.glRef = FALSE]

\* Variant of cleanupBody that deletes the objects and keeps the refs.
cleanupBodyKeepsRefs(s, c) ==
  LET s1 == [s EXCEPT !.pending = {p \in @ : p.run # s.animationFrameRef},
                      !.overlays = IF c.debugCanvas THEN @ \ {c.run} ELSE @]
      s2 == IF s1.vaoRef # NoHandle THEN GlDelete(s1, "vaos", s1.vaoRef) ELSE s1
      s3 == IF s2.programRef # NoHandle
              THEN GlDelete(s2, "programs", s2.programRef) ELSE s2
  IN  [s3 EXCEPT !.glRef = FALSE]

\* Variant of cleanupBody that leaves the debug canvas attached.
cleanupBodyKeepsOverlay(s, c) ==
  LET s1 == [s EXCEPT !.pending = {p \in @ : p.run # s.animationFrameRef}]
      s2 == IF s1.vaoRef # NoHandle
              THEN [GlDelete(s1, "vaos", s1.vaoRef) EXCEPT !.vaoRef = NoHandle]
              ELSE s1
      s3 == IF s2.programRef # NoHandle
              THEN [GlDelete(s2, "programs", s2.programRef)
                      EXCEPT !.programRef = NoHandle]
              ELSE s2
  IN  [s3 EXCEPT !.glRef = FALSE]

\* Variant of cleanupBody that does not cancel the pending request.
cleanupBodyKeepsLoop(s, c) ==
  LET s1 == [s EXCEPT !.overlays = IF c.debugCanvas THEN @ \ {c.run} ELSE @]
      s2 == IF s1.vaoRef # NoHandle
              THEN [GlDelete(s1, "vaos", s1.vaoRef) EXCEPT !.vaoRef = NoHandle]
              ELSE s1
      s3 == IF s2.programRef # NoHandle
              THEN [GlDelete(s2, "programs", s2.programRef)
                      EXCEPT !.programRef = NoHandle]
              ELSE s2
  IN  [s3 EXCEPT !.glRef = FALSE]

\* The statements of the cleanup function returned by the run of the main effect
\* whose closure is c = [run, debugCanvas]: the last request is cancelled, the
\* debug canvas of that run is detached, the geometry and the program held are
\* deleted and the refs cleared.
cleanupBody(s, c) ==
  LET s1 == [s EXCEPT !.pending = {p \in @ : p.run # s.animationFrameRef},
                      !.overlays = IF c.debugCanvas THEN @ \ {c.run} ELSE @]
      s2 == IF s1.vaoRef # NoHandle
              THEN [GlDelete(s1, "vaos", s1.vaoRef) EXCEPT !.vaoRef = NoHandle]
              ELSE s1
      s3 == IF s2.programRef # NoHandle
              THEN [GlDelete(s2, "programs", s2.programRef)
                      EXCEPT !.programRef = NoHandle]
              ELSE s2
  IN  [s3 EXCEPT !.glRef = FALSE]

\* The cleanup returned by the main effect's last run (nothing when that run
\* returned early), as React runs it: once.
mainCleanup(s) ==
  IF ~s.cleanup.registered THEN s
  ELSE [cleanupBody(s, s.cleanup) EXCEPT !.cleanup = NoCleanup]

\* The shaderId effect's body
shaderIdEffect(s, id, outcome, t) ==
  IF s.glRef /\ s.vaoRef # NoHandle
    THEN [initShader(s, id, outcome) EXCEPT !.startTimeRef = t]
    ELSE s

\* ------------------------------------------------------------------ inputs
Outcomes == {"ok", "vertex", "fragment", "link"}

\* an id no shader of the catalog has
MissingId == "missing"

AllIds == ShaderIds \cup {MissingId}

\* SHADER_BUTTONS: the ids the panel's buttons select
SHADER_BUTTONS == << "plasma", "sphere", "noise", "kaleidoscope", "aurora" >>

\* the maps a caller of the component supplies: up to MaxKeys entries over
\* these names and values (1.5 and 2.5; "u_unknown" is no shader's uniform)
MaxKeys == 2

CallerNames == {"u_speed", "u_octaves", "u_unknown"}

CallerValues == {30, 50}

CallerMaps ==
  UNION {[d -> CallerValues] : d \in {n \in SUBSET CallerNames : Cardinality(n) <= MaxKeys}}

Sizes == {[width |-> 800, height |-> 600], [width |-> 400, height |-> 300]}

\* pointer positions inside the canvas rectangle, in thousandths
Points == {0, 1000}

\* The positions of a mouse pointer over the canvas: its top-right and its
\* bottom-left corner.
MousePoints == {[x |-> 1000, y |-> 0], [x |-> 0, y |-> 1000]}

\* The positions of a touch that started on the canvas: the same, and a point
\* beyond the top-right corner (the events of a touch go to the element it
\* started on, wherever the finger moves).
TouchPoints == MousePoints \cup {[x |-> 1500, y |-> 0 - 500]}

Idle(op) ==
  [op |-> op, changed |-> FALSE, builds |-> << >>, reports |-> << >>,
   frames |-> << >>, before |-> Snapshot]

\* -------------------------------------------------------------------- Init
Init ==
  /\ phase = "unmounted"
  /\ now = 0
  /\ shaderId \in AllIds
  /\ uniforms = (IF getShaderById(shaderId) = << >> THEN EmptyMap
                 ELSE getDefaultUniforms(getShaderById(shaderId)[1]))
  /\ showDebug = FALSE
  /\ error = "null"
  /\ glRef = FALSE
  /\ programRef = NoHandle
  /\ vaoRef = NoHandle
  /\ animationFrameRef = 0
  /\ startTimeRef = 0
  /\ fpsMonitorRef = createFPSMonitor(0)
  /\ hasErrorRef = FALSE
  /\ targetMouseRef = [x |-> 500, y |-> 500]
  /\ currentMouseRef = [x |-> 500, y |-> 500]
  /\ uniformsRef = uniforms
  /\ showDebugRef = showDebug
  /\ cleanup = NoCleanup
  /\ pending = {}
  /\ canvas = [width |-> 300, height |-> 150]
  /\ parent = [width |-> 800, height |-> 600]
  /\ overlays = {}
  /\ gl \in {[supported |-> b, programs |-> {}, vaos |-> {},
              shaders |-> {}, buffers |-> {}, linked |-> EmptyMap,
              badDeletes |-> {}, overlaps |-> {}, viewport |-> << 0, 0, 300, 150 >>] : b \in BOOLEAN}
  /\ runs = 0
  /\ last = Idle("init")
  /\ initialBuildFailed = FALSE

\* ----------------------------------------------------------------- actions
\* Variant of Effects whose uniforms effect does not store the new map.
EffectsStaleUniforms(s, id, m, d, shaderChanged, in, t) ==
  LET c  == IF shaderChanged THEN mainCleanup(s) ELSE s
      e2 == [c EXCEPT !.showDebugRef = d]
  IN  IF shaderChanged
        THEN shaderIdEffect(mainEffect(e2, id, in.quad, in.o1, t), id, in.o2, t)
        ELSE e2

\* The effects of one commit, in declaration order, for the props (id, m, d):
\* the uniforms effect, the showDebug effect, and, when the shader id changed
\* (or at mount), the main effect after its former cleanup and the shaderId
\* effect.
Effects(s, id, m, d, shaderChanged, in, t) ==
  LET c  == IF shaderChanged THEN mainCleanup(s) ELSE s
      e2 == [c EXCEPT !.uniformsRef = m, !.showDebugRef = d]
  IN  IF shaderChanged
        THEN shaderIdEffect(mainEffect(e2, id, in.quad, in.o1, t), id, in.o2, t)
        ELSE e2

\* What the driver makes of one run of the main effect and of the shaderId
\* effect after it: whether the vertex array can be created, and the outcome of
\* the two builds.  Both builds compile the same sources in the same commit, so
\* they end the same way, unless the driver stops creating objects on the way:
\* createShader then returns null and the build fails at its first stage.  A
\* driver that does not create the vertex array (createVertexArray returns
\* null) creates no shader for the build that follows either.
RunInputs ==
  {[quad |-> FALSE, o1 |-> "vertex", o2 |-> "vertex"]}
    \cup {[quad |-> TRUE, o1 |-> o, o2 |-> o] : o \in Outcomes}
    \cup {[quad |-> TRUE, o1 |-> "ok", o2 |-> "vertex"]}

NoRun == [quad |-> TRUE, o1 |-> "ok", o2 |-> "ok"]

\* The component mounts with the props of the page.
Mount ==
  /\ phase = "unmounted"
  /\ \E in \in RunInputs :
       Commit(Effects(Cur, shaderId, uniforms, showDebug, TRUE, in, now),
              "mount", FALSE)
  /\ phase' = "mounted"
  /\ UNCHANGED << now, shaderId, uniforms, showDebug >>

\* Variant of handleShaderSelect that restarts the component at every call.
handleShaderSelectRestarts(id, in) ==
  LET def == getShaderById(id)
  IN  IF def = << >>
        THEN UNCHANGED vars
        ELSE /\ shaderId' = id
             /\ uniforms' = getDefaultUniforms(def[1])
             /\ Commit(Effects([Cur EXCEPT !.error = "null"], id,
                               getDefaultUniforms(def[1]), showDebug,
                               TRUE, in, now),
                       "select", id # shaderId)
             /\ UNCHANGED << phase, now, showDebug >>

\* handleShaderSelect(id) of the page, and the commit that follows it.
handleShaderSelect(id, in) ==
  LET def == getShaderById(id)
  IN  IF def = << >>
        THEN UNCHANGED vars
        ELSE /\ shaderId' = id
             /\ uniforms' = getDefaultUniforms(def[1])
             /\ Commit(Effects([Cur EXCEPT !.error = "null"], id,
                               getDefaultUniforms(def[1]), showDebug,
                               id # shaderId, in, now),
                       "select", id # shaderId)
             /\ UNCHANGED << phase, now, showDebug >>

\* A panel button (or a digit key) selects a shader.
Select ==
  /\ phase = "mounted"
  /\ \E i \in 1..Len(SHADER_BUTTONS) :
       IF SHADER_BUTTONS[i] = shaderId
         THEN handleShaderSelect(SHADER_BUTTONS[i], NoRun)
         ELSE /\ runs < MaxRuns
              /\ \E in \in RunInputs : handleShaderSelect(SHADER_BUTTONS[i], in)

\* Variant of handleShaderSelectFor that keeps the map of the former shader.
handleShaderSelectKeepsUniforms(op, id, in) ==
  LET def == getShaderById(id)
  IN  IF def = << >>
        THEN UNCHANGED vars
        ELSE /\ shaderId' = id
             /\ Commit(Effects([Cur EXCEPT !.error = "null"], id, uniforms, showDebug,
                               id # shaderId, in, now),
                       op, id # shaderId)
             /\ UNCHANGED << phase, now, showDebug, uniforms >>

\* handleShaderSelect(id) of the page when the key handler `op` calls it, and
\* the commit that follows it.
handleShaderSelectFor(op, id, in) ==
  LET def == getShaderById(id)
  IN  IF def = << >>
        THEN UNCHANGED vars
        ELSE /\ shaderId' = id
             /\ uniforms' = getDefaultUniforms(def[1])
             /\ Commit(Effects([Cur EXCEPT !.error = "null"], id,
                               getDefaultUniforms(def[1]), showDebug,
                               id # shaderId, in, now),
                       op, id # shaderId)
             /\ UNCHANGED << phase, now, showDebug >>

\* a % n of JavaScript: the remainder has the sign of a
JsRem(a, n) == IF a >= 0 THEN a % n ELSE 0 - ((0 - a) % n)

\* SHADERS.findIndex(s => s.id === id): the index from 0, or -1
findIndex(id) ==
  LET hits == {i \in 1..Len(SHADERS) : SHADERS[i].id = id}
  IN  IF hits = {} THEN 0 - 1
      ELSE (CHOOSE i \in hits : \A j \in hits : i <= j) - 1

\* Variant of nextIndex that stops at the ends of the catalog.
nextIndexClamped(id, direction) ==
  LET n == findIndex(id) + direction
  IN  IF n < 0 THEN 0 ELSE IF n >= Len(SHADERS) THEN Len(SHADERS) - 1 ELSE n

\* cycleShader's nextIndex (from 0) for the shader id and the direction
nextIndex(id, direction) ==
  JsRem(findIndex(id) + direction + Len(SHADERS), Len(SHADERS))

\* cycleShader(direction): the id of SHADERS[nextIndex]
cycleTarget(id, direction) == SHADERS[nextIndex(id, direction) + 1].id

\* The key of cycleShader's two directions
ArrowKeys == [ArrowLeft |-> 0 - 1, ArrowRight |-> 1]

\* ArrowLeft / ArrowRight: cycleShader(-1) / cycleShader(1), on a driver that
\* builds the shader
cycleShader ==
  /\ phase = "mounted"
  /\ runs < MaxRuns
  /\ \E key \in DOMAIN ArrowKeys :
       \E id \in {cycleTarget(shaderId, ArrowKeys[key])} :
         handleShaderSelectFor(key, id, NoRun)

\* Digit1 .. Digit5: handleShaderSelect(SHADERS[i].id) when there is such a
\* shader, on a driver that builds it
digitKey ==
  /\ phase = "mounted"
  /\ \E i \in 1..5 :
       /\ i <= Len(SHADERS)
       /\ \E id \in {SHADERS[i].id} :
            /\ id # shaderId => runs < MaxRuns
            /\ handleShaderSelectFor("Digit", id, NoRun)

\* The effects of a commit of the page that changes no shader id: the uniforms
\* effect and the showDebug effect store the props (m, d) in their refs.
refEffects(s, m, d) == [s EXCEPT !.uniformsRef = m, !.showDebugRef = d]

\* Variant of resetDefaults that leaves the map as it is.
resetDefaultsKeeps(id, m) == m

\* The map handleResetDefaults sets for the shader id when the map is m
resetDefaults(id, m) ==
  CHOOSE r \in {IF shader = << >> THEN m ELSE getDefaultUniforms(shader[1])
                  : shader \in {getShaderById(id)}} : TRUE

\* The R key or the reset button: handleResetDefaults, and the commit after it
handleResetDefaults ==
  /\ phase = "mounted"
  /\ \E m \in {resetDefaults(shaderId, uniforms)} :
       /\ uniforms' = m
       /\ Commit(refEffects(Cur, m, showDebug), "reset", FALSE)
  /\ UNCHANGED << phase, now, shaderId, showDebug >>

\* The sliders the panel shows: one per uniform of the selected shader
Sliders ==
  CHOOSE us \in {IF shader = << >> THEN << >> ELSE shader[1].uniforms
                   : shader \in {getShaderById(shaderId)}} : TRUE

\* A slider of the panel is moved to one of its ends: handleUniformChange(name,
\* value), and the commit after it
handleUniformChange ==
  /\ phase = "mounted"
  /\ \E us \in {Sliders} : \E slider \in {us[i] : i \in 1..Len(us)} :
       \E m \in {Put(uniforms, slider.name, value) : value \in {slider.min, slider.max}} :
         /\ uniforms' = m
         /\ Commit(refEffects(Cur, m, showDebug), "slider", FALSE)
  /\ UNCHANGED << phase, now, shaderId, showDebug >>

\* The caller supplies a new ParameterValues map.
SetUniforms ==
  /\ phase = "mounted"
  /\ \E m \in CallerMaps :
       /\ uniforms' = m
       /\ Commit(Effects(Cur, shaderId, m, showDebug, FALSE, NoRun, now),
                 "uniforms", FALSE)
  /\ UNCHANGED << phase, now, shaderId, showDebug >>

\* The D key: setShowDebug(prev => !prev)
ToggleDebug ==
  /\ phase = "mounted"
  /\ showDebug' = ~showDebug
  /\ Commit(Effects(Cur, shaderId, uniforms, ~showDebug, FALSE, NoRun, now),
            "debug", FALSE)
  /\ UNCHANGED << phase, now, shaderId, uniforms >>

\* A pending frame callback runs.
Frame ==
  /\ \E p \in pending :
       Commit(render([Cur EXCEPT !.pending = @ \ {p}], p, now), "frame", FALSE)
  /\ UNCHANGED << phase, now, shaderId, uniforms, showDebug >>

\* The container changes size and the ResizeObserver of the main effect's last
\* complete run calls handleResize.
Resize ==
  /\ phase = "mounted"
  /\ cleanup.registered
  /\ \E sz \in Sizes \ {parent} :
       Commit(handleResize([Cur EXCEPT !.parent = sz]), "resize", FALSE)
  /\ UNCHANGED << phase, now, shaderId, uniforms, showDebug >>

\* mousemove on the canvas, while the listener is attached
MouseMove ==
  /\ phase = "mounted"
  /\ cleanup.registered
  /\ \E px \in Points, py \in Points :
       Commit(handleMouseMove(Cur, px, py), "mousemove", FALSE)
  /\ UNCHANGED << phase, now, shaderId, uniforms, showDebug >>

\* touchmove on the canvas, while the listener is attached
TouchMove ==
  /\ phase = "mounted"
  /\ cleanup.registered
  /\ \E touches \in 0..1, px \in Points, py \in Points :
       Commit(handleTouchMove(Cur, touches, px, py), "touchmove", FALSE)
  /\ UNCHANGED << phase, now, shaderId, uniforms, showDebug >>

\* mousemove on the canvas at one of the corners, while the listener is attached
PointerMove ==
  /\ phase = "mounted"
  /\ cleanup.registered
  /\ \E p \in MousePoints :
       Commit(handleMouseMove(Cur, p.x, p.y), "mousemove", FALSE)
  /\ UNCHANGED << phase, now, shaderId, uniforms, showDebug >>

\* touchmove on the canvas with no touch or one, while the listener is attached
PointerTouch ==
  /\ phase = "mounted"
  /\ cleanup.registered
  /\ \E touches \in 0..1, p \in TouchPoints :
       Commit(handleTouchMove(Cur, touches, p.x, p.y), "touchmove", FALSE)
  /\ UNCHANGED << phase, now, shaderId, uniforms, showDebug >>

\* Variant of pageAfterSelect that takes any id for a shader's.
pageAfterSelectAny(id) == [shaderId |-> id, uniforms |-> uniforms, error |-> "null"]

\* The page's state after handleShaderSelect(id): the shader id, the parameter
\* values and the error shown
pageAfterSelect(id) ==
  CHOOSE pg \in {IF shader = << >>
                   THEN [shaderId |-> shaderId, uniforms |-> uniforms, error |-> error]
                   ELSE [shaderId |-> id, uniforms |-> getDefaultUniforms(shader[1]),
                         error |-> "null"]
                   : shader \in {getShaderById(id)}} : TRUE

\* handleShaderSelect is called with an id, by a shader button of the panel (an
\* id of the catalog) or by anything else (any id), on a driver that builds
\* every shader: the call and the commit after it.
SelectRequest ==
  /\ phase = "mounted"
  /\ \E id \in AllIds :
       /\ (id \in ShaderIds /\ id # shaderId) => runs < MaxRuns
       /\ \E pg \in {pageAfterSelect(id)} :
            /\ shaderId' = pg.shaderId
            /\ uniforms' = pg.uniforms
            /\ Commit(Effects([Cur EXCEPT !.error = pg.error], pg.shaderId,
                              pg.uniforms, showDebug, pg.shaderId # shaderId,
                              NoRun, now),
                      IF id \in ShaderIds THEN "request" ELSE "unknown",
                      pg.shaderId # shaderId)
  /\ UNCHANGED << phase, now, showDebug >>

\* The caller of the component renders it with another shader id, of the
\* catalog or not, and the same parameter values: the commit after it.
SetShaderId ==
  /\ phase = "mounted"
  /\ runs < MaxRuns
  /\ \E id \in AllIds \ {shaderId}, in \in RunInputs :
       /\ shaderId' = id
       /\ Commit(Effects(Cur, id, uniforms, showDebug, TRUE, in, now),
                 "shaderId", TRUE)
  /\ UNCHANGED << phase, now, uniforms, showDebug >>

\* The pointer position of a small move from the centre of the canvas, half a
\* percent of its width to the right and of its height down
NudgedPoint == [x |-> 505, y |-> 505]

\* mousemove or touchmove (with no touch or one) on the canvas at NudgedPoint,
\* while the listeners are attached
CanvasPointer ==
  /\ phase = "mounted"
  /\ cleanup.registered
  /\ \E touches \in 0..1 :
       Commit(IF touches = 0
                THEN handleMouseMove(Cur, NudgedPoint.x, NudgedPoint.y)
                ELSE handleTouchMove(Cur, touches, NudgedPoint.x, NudgedPoint.y),
              "pointer", FALSE)
  /\ UNCHANGED << phase, now, shaderId, uniforms, showDebug >>

\* The first slider of the panel is moved to its maximum:
\* handleUniformChange(name, max), and the commit after it
FirstSlider ==
  /\ phase = "mounted"
  /\ \E us \in {Sliders} :
       /\ us # << >>
       /\ \E m \in {Put(uniforms, us[1].name, us[1].max)} :
            /\ uniforms' = m
            /\ Commit(refEffects(Cur, m, showDebug), "slider", FALSE)
  /\ UNCHANGED << phase, now, shaderId, showDebug >>

\* The component unmounts: React runs the main effect's cleanup, if it has one.
Unmount ==
  /\ phase = "mounted"
  /\ Commit(mainCleanup(Cur), "unmount", FALSE)
  /\ phase' = "disposed"
  /\ UNCHANGED << now, shaderId, uniforms, showDebug >>

\* The clock advances by a second.
Tick ==
  /\ phase = "mounted"
  /\ now < MaxTime * 1000
  /\ now' = now + 1000
  /\ last' = Idle("tick")
  /\ UNCHANGED << phase, shaderId, uniforms, showDebug, error, glRef, programRef,
                  vaoRef, animationFrameRef, startTimeRef, fpsMonitorRef, hasErrorRef,
                  targetMouseRef, currentMouseRef, uniformsRef, showDebugRef, cleanup,
                  pending, canvas, parent, overlays, gl, runs, initialBuildFailed >>

\* the refreshes of the display per second
RefreshRate == 60

\* performance.now() at the k-th refresh of the display, in whole milliseconds
RefreshTime(k) == (k * 1000) \div RefreshRate

\* the refreshes still to come at time t
RefreshesAfter(t) == {k \in 1..MaxRefreshes : RefreshTime(k) > t}

\* The display refreshes: the clock is at the next refresh and the browser
\* runs the frame callback requested for it.
Refresh ==
  /\ phase = "mounted"
  /\ RefreshesAfter(now) # {}
  /\ \E k \in RefreshesAfter(now) :
       /\ \A j \in RefreshesAfter(now) : k <= j
       /\ now' = RefreshTime(k)
       /\ IF pending = {}
            THEN /\ last' = Idle("refresh")
                 /\ UNCHANGED << error, glRef, programRef, vaoRef, animationFrameRef,
                                 startTimeRef, fpsMonitorRef, hasErrorRef,
                                 targetMouseRef, currentMouseRef, uniformsRef,
                                 showDebugRef, cleanup, pending, canvas, parent,
                                 overlays, gl, runs, initialBuildFailed >>
            ELSE \E p \in pending :
                   Commit(render([Cur EXCEPT !.pending = @ \ {p}], p, RefreshTime(k)),
                          "refresh", FALSE)
  /\ UNCHANGED << phase, shaderId, uniforms, showDebug >>

Next ==
  \/ Mount
  \/ Select
  \/ Frame
  \/ Unmount
  \/ Tick

Spec == Init /\ [][Next]_vars

\* A session in which the caller changes the parameter values and never the
\* shader.
ParamNext ==
  \/ Mount
  \/ SetUniforms
  \/ Frame
  \/ Unmount
  \/ Tick

ParamSpec == Init /\ [][ParamNext]_vars

\* The specification of the claims about the size of the surface: the lifecycle
\* with a container that changes size.
ResizeNext ==
  \/ Mount
  \/ Select
  \/ Resize
  \/ Frame
  \/ Unmount
  \/ Tick

ResizeSpec == Init /\ [][ResizeNext]_vars

\* The state after construction when the page hosts the component: the page's
\* shader is "plasma", with its defaults.
PageInit == Init /\ shaderId = "plasma"

\* The specification of the claims about the pointer: the page's component,
\* its frames, and the mouse and touch events on its canvas.
PointerNext ==
  \/ Mount
  \/ PointerMove
  \/ PointerTouch
  \/ Frame
  \/ Unmount
  \/ Tick

PointerSpec == PageInit /\ [][PointerNext]_vars

\* The specification of the claims about the page: its component, the digit
\* keys, the arrow keys, the sliders, the reset and the D key.
PageNext ==
  \/ Mount
  \/ digitKey
  \/ cycleShader
  \/ handleUniformChange
  \/ handleResetDefaults
  \/ ToggleDebug
  \/ Unmount

PageSpec == PageInit /\ [][PageNext]_vars

\* The specification of the claims about the debug overlay: the page's
\* component, its frames, the shader buttons and the D key.
DebugNext ==
  \/ Mount
  \/ Select
  \/ ToggleDebug
  \/ Frame
  \/ Unmount
  \/ Tick

DebugSpec == PageInit /\ [][DebugNext]_vars

\* The specification of the claims about the frame-rate history: the page's
\* component on a display that refreshes RefreshRate times a second, the arrow
\* keys and the unmount.
FpsNext ==
  \/ Mount
  \/ cycleShader
  \/ Refresh
  \/ Unmount

FpsSpec == PageInit /\ [][FpsNext]_vars

\* The specification of the claims about the interleaving of everything that
\* can happen to the page's component: mount, shader buttons, a slider, the D
\* key, a resize of the container, pointer events, frame callbacks, unmount.
LoopNext ==
  \/ Mount
  \/ Select
  \/ FirstSlider
  \/ ToggleDebug
  \/ Resize
  \/ CanvasPointer
  \/ Frame
  \/ Unmount

LoopSpec == PageInit /\ [][LoopNext]_vars

\* The specification of the claims about the page's selection: the arrow and
\* digit keys, and calls of handleShaderSelect with any id, the shader buttons'
\* among them.
SelectNext ==
  \/ Mount
  \/ cycleShader
  \/ digitKey
  \/ SelectRequest
  \/ Unmount

SelectSpec == PageInit /\ [][SelectNext]_vars

\* The specification of the claims about the component under any caller: it
\* mounts with any shader id and is given any other one later.
CoreNext ==
  \/ Mount
  \/ SetShaderId
  \/ Frame
  \/ Unmount

CoreSpec == Init /\ [][CoreNext]_vars

\* ------------------------------------------------------------------ claims
BuildFailed(l) == \E i \in 1..Len(l.builds) : l.builds[i].result # "ok"

AllBuildsOk(l) ==
  /\ l.builds # << >>
  /\ \A i \in 1..Len(l.builds) : l.builds[i].result = "ok"

\* The step that led here was a switch to another shader.
Switched == last.op = "select" /\ last.changed

\* The shader of the current id, the uniforms of the program held, and what a
\* descriptor of that shader says of a name.
ActiveShader == getShaderById(shaderId)

ProgramUniforms == ActiveUniforms(Cur, programRef)

DescriptorsOf(name) ==
  IF ActiveShader = << >> THEN {}
  ELSE {ActiveShader[1].uniforms[i] : i \in
          {j \in 1..Len(ActiveShader[1].uniforms) :
             ActiveShader[1].uniforms[j].name = name}}

\* The value the device receives for value v of a parameter of kind t.
Received(t, v) == IF t = "int" THEN ToInt(v) ELSE v

\* Normal drawing: no error flag, the program held is live and was linked from
\* the current shader, the geometry is live, and a frame callback is pending.
Rendering ==
  /\ ~hasErrorRef
  /\ programRef \in gl.programs
  /\ programRef \in DOMAIN gl.linked
  /\ gl.linked[programRef] = shaderId
  /\ vaoRef \in gl.vaos
  /\ pending # {}

NormalDraw(frame) ==
  /\ frame.kind = "draw"
  /\ frame.live
  /\ frame.draws = << [mode |-> "TRIANGLES", count |-> 6] >>

\* C1: after a shader switch whose build fails, made while the frame loop was
\* running, a frame callback is still pending (the loop never stops because of
\* a build error).
C1_LoopSurvivesFailedSwitch ==
  (phase = "mounted" /\ Switched /\ BuildFailed(last) /\ last.before.loop)
    => pending # {}

\* C2: a frame callback that runs while the error flag is set only clears to the
\* fallback color: no draw call, no uniform upload, and one new request.
C2_DegradedFrameOnlyClears ==
  (last.op = "frame" /\ last.before.hasErrorRef)
    => /\ Len(last.frames) = 1
       /\ last.frames[1].clear = << << 2, 2, 5, 100 >> >>
       /\ last.frames[1].draws = << >>
       /\ last.frames[1].uploads = EmptyMap
       /\ last.frames[1].requests = 1
       /\ Cardinality(pending) = 1
       /\ \A p \in pending : p.run = animationFrameRef

C2_Witness ==
  /\ last.op = "frame"
  /\ last.before.hasErrorRef
  /\ hasErrorRef
  /\ last.frames[1].kind = "fallback"

\* C3: a switch made while the error flag is set, all of whose builds succeed,
\* clears the flag and the displayed error, leaves a live program of the new
\* shader and a pending frame callback, and every frame that runs with the flag
\* clear and a program held is a normal draw that leaves things so.
C3_SwitchRecovers ==
  /\ (Switched /\ last.before.hasErrorRef /\ AllBuildsOk(last))
       => /\ Rendering
          /\ last.reports = << >>
          /\ error = "null"
          /\ \A k \in 1..Len(last.frames) : NormalDraw(last.frames[k])
  /\ (last.op = "frame" /\ ~last.before.hasErrorRef /\ last.before.program)
       => /\ NormalDraw(last.frames[1])
          /\ Rendering

C3_Witness ==
  /\ Switched
  /\ last.before.hasErrorRef
  /\ AllBuildsOk(last)
  /\ runs = 3
  /\ ~initialBuildFailed
  /\ Rendering

\* C4: when the program build of the mount failed, the mount reported the error
\* through the callback and no frame callback is pending at any later time of
\* the session.
C4_FailedMountNeverSchedules ==
  initialBuildFailed
    => /\ pending = {}
       /\ last.op = "mount" => (last.reports # << >> /\ error = last.reports[1])

\* C5: on a normally drawn frame every parameter the current shader declares
\* and the ParameterValues map lacks is uploaded with its declared default.
C5_MissingKeyUploadsDefault ==
  \A k \in 1..Len(last.frames) :
    (last.frames[k].kind = "draw" /\ ActiveShader # << >>)
      => \A i \in 1..Len(ActiveShader[1].uniforms) :
           LET u == ActiveShader[1].uniforms[i]
           IN  u.name \notin DOMAIN uniforms
                 => /\ u.name \in DOMAIN last.frames[k].uploads
                    /\ last.frames[k].uploads[u.name].value
                         = Received(u.type, u.defaultValue)

\* C6: a frame that runs while the ParameterValues map has an entry that is no
\* uniform of the program is drawn all the same: the error flag stays clear,
\* nothing is reported, the unknown entry is not uploaded and every other entry
\* is uploaded with its value.
C6_UnknownEntryIgnored ==
  (last.op = "frame" /\ last.frames[1].kind = "draw"
     /\ ~(DOMAIN uniforms \subseteq ProgramUniforms))
    => /\ NormalDraw(last.frames[1])
       /\ ~hasErrorRef
       /\ last.reports = << >>
       /\ error = "null"
       /\ DOMAIN last.frames[1].uploads
            = (StandardUniforms \cup DOMAIN uniforms) \cap ProgramUniforms
       /\ \A n \in DOMAIN uniforms \cap ProgramUniforms :
            \A u \in DescriptorsOf(n) :
              last.frames[1].uploads[n].value = Received(u.type, uniforms[n])

C6_Witness ==
  /\ last.op = "frame"
  /\ last.frames[1].kind = "draw"
  /\ shaderId = "plasma"
  /\ DOMAIN uniforms = {"u_speed", "u_unknown"}
  /\ DOMAIN last.frames[1].uploads = StandardUniforms \cup {"u_speed"}
  /\ last.frames[1].uploads["u_speed"].value = uniforms["u_speed"]

\* Every entry of the current ParameterValues map that the program knows is in
\* the uploads of the frame just drawn, with the map's value.
FrameUploadsCurrentValues ==
  (last.op = "frame" /\ last.frames[1].kind = "draw")
    => \A n \in DOMAIN uniforms \cap ProgramUniforms :
         /\ n \in DOMAIN last.frames[1].uploads
         /\ \A u \in DescriptorsOf(n) :
              last.frames[1].uploads[n].value = Received(u.type, uniforms[n])

\* C7: a new ParameterValues map changes neither the pending frame callback,
\* nor the program, the geometry or any other device object, nor the time
\* origin, and builds nothing; the frames drawn after it upload the new values.
C7_NewValuesNextFrame ==
  [][/\ last'.op = "uniforms"
          => /\ pending' = pending
             /\ animationFrameRef' = animationFrameRef
             /\ programRef' = programRef
             /\ vaoRef' = vaoRef
             /\ gl' = gl
             /\ startTimeRef' = startTimeRef
             /\ runs' = runs
             /\ last'.builds = << >>
     /\ FrameUploadsCurrentValues']_vars

C7_Witness ==
  /\ last.op = "frame"
  /\ last.frames[1].kind = "draw"
  /\ shaderId = "plasma"
  /\ uniforms = Put(EmptyMap, "u_speed", 30)
  /\ last.frames[1].uploads["u_speed"] = [type |-> "float", value |-> 30]
  /\ startTimeRef = 0
  /\ last.frames[1].uploads["u_time"].value = 1000

\* C8: the name convention agrees with the descriptor's kind on every parameter
\* of every shader of the catalog, and every frame uploads each parameter of the
\* current shader with the kind its descriptor declares.
C8_KindFollowsDescriptor ==
  /\ \A i \in 1..Len(SHADERS) : \A j \in 1..Len(SHADERS[i].uniforms) :
       LET u == SHADERS[i].uniforms[j]
       IN  /\ u.type \in {"int", "float"}
           /\ isInt(u.name) <=> u.type = "int"
  /\ \A k \in 1..Len(last.frames) :
       \A n \in DOMAIN last.frames[k].uploads \ StandardUniforms :
         /\ DescriptorsOf(n) # {}
         /\ \A u \in DescriptorsOf(n) : last.frames[k].uploads[n].type = u.type

C8_Witness ==
  /\ last.op = "frame"
  /\ shaderId = "noise"
  /\ "u_octaves" \in DOMAIN uniforms
  /\ last.frames[1].uploads["u_octaves"].type = "int"
  /\ last.frames[1].uploads["u_zoom"].type = "float"

\* The step that led here was a switch whose builds failed at the fragment
\* compile.
FragmentFailedSwitch ==
  /\ Switched
  /\ last.builds # << >>
  /\ \A i \in 1..Len(last.builds) : last.builds[i].result = "fragment"

FragmentFailureReported ==
  \A i \in 1..Len(last.reports) :
    last.reports[i] = "Failed to compile fragment shader: " \o ActiveShader[1].name

\* C9 as stated: after a switch that fails at the fragment compile, the failure
\* is reported and the program that was active before is still held and live.
C9_FailedSwitchKeepsProgram ==
  (FragmentFailedSwitch /\ last.before.program)
    => /\ FragmentFailureReported
       /\ programRef # NoHandle
       /\ programRef.run < runs
       /\ programRef \in gl.programs

\* C9 as amended: after a switch that fails at the fragment compile, the failure
\* is reported and the error flag is set; and whenever the error flag is set no
\* program is held or live: the former one was deleted before the build.
C9_FailedSwitchDestroysProgram ==
  /\ FragmentFailedSwitch
       => /\ last.reports # << >>
          /\ FragmentFailureReported
          /\ error = last.reports[1]
          /\ hasErrorRef
  /\ hasErrorRef => (programRef = NoHandle /\ gl.programs = {})

C9_Witness ==
  /\ FragmentFailedSwitch
  /\ last.before.program
  /\ hasErrorRef
  /\ programRef = NoHandle
  /\ gl.programs = {}

\* C10 as stated: a selection of the id that is already active, made while the
\* component draws normally, resets the time origin to the time of the
\* selection.
C10_SameIdResetsTime ==
  (last.op = "select" /\ ~last.changed /\ Rendering)
    => startTimeRef = now

\* C10 as amended: a selection of the id that is already active restarts
\* nothing: the time origin, the program, the device and the pending frame
\* callback are as before and nothing is built; the parameter values return to
\* the shader's defaults and the displayed error is cleared.
C10_SameIdKeepsTime ==
  [][(last'.op = "select" /\ ~last'.changed)
       => /\ startTimeRef' = startTimeRef
          /\ programRef' = programRef
          /\ vaoRef' = vaoRef
          /\ gl' = gl
          /\ pending' = pending
          /\ runs' = runs
          /\ hasErrorRef' = hasErrorRef
          /\ last'.builds = << >>
          /\ shaderId' = shaderId
          /\ uniforms' = getDefaultUniforms(getShaderById(shaderId)[1])
          /\ error' = "null"]_vars

C10_Witness ==
  /\ last.op = "select"
  /\ ~last.changed
  /\ now > startTimeRef
  /\ Rendering

\* A switch to another shader all of whose builds succeeded led here.
SwitchedOk == Switched /\ AllBuildsOk(last)

\* The frames of the last step that were drawn upload the time since the time
\* origin as u_time.
FramesUploadElapsed ==
  \A k \in 1..Len(last.frames) :
    last.frames[k].kind = "draw"
      => last.frames[k].uploads["u_time"] =
           [type |-> "float", value |-> now - startTimeRef]

\* C11: a switch to another shader that builds sets the time origin to the
\* instant of the switch; frames and clock ticks leave the origin alone, and
\* every drawn frame uploads as u_time the time since the origin.
C11_TimeOriginIsLastSwitch ==
  [][/\ SwitchedOk' => startTimeRef' = now'
     /\ last'.op \in {"frame", "tick"} => startTimeRef' = startTimeRef
     /\ FramesUploadElapsed']_vars

C11_Witness ==
  /\ last.op = "frame"
  /\ last.frames[1].kind = "draw"
  /\ runs = 2
  /\ startTimeRef = 1000
  /\ now = 2000
  /\ last.frames[1].uploads["u_time"].value = 1000

\* C12: at an unmount that runs the cleanup function, running that function a
\* second time changes nothing of what the first run left, deletes nothing that
\* is not live, and after either run no frame callback is pending; a disposed
\* component has no pending frame callback.
C12_TeardownIdempotent ==
  [][/\ (last'.op = "unmount" /\ cleanup.registered)
          => LET once  == cleanupBody(Cur, cleanup)
                 twice == cleanupBody(once, cleanup)
             IN  /\ twice = once
                 /\ once.gl.badDeletes = gl.badDeletes
                 /\ once.pending = {}
                 /\ pending' = once.pending
                 /\ gl' = once.gl
                 /\ programRef' = NoHandle
                 /\ vaoRef' = NoHandle
                 /\ glRef' = FALSE
     /\ phase' = "disposed" => pending' = {}]_vars

C12_Witness ==
  /\ phase = "disposed"
  /\ last.op = "unmount"
  /\ last.before.loop
  /\ last.before.program
  /\ pending = {}
  /\ programRef = NoHandle

\* C13: after the unmount no program and no vertex array is live and no frame
\* callback is pending, whatever state the component was unmounted from.
C13_TeardownReleasesAll ==
  phase = "disposed"
    => /\ gl.programs = {}
       /\ gl.vaos = {}
       /\ pending = {}

\* C14: no shader (stage) object outlives the build that created it, whatever
\* the build's outcome, and none is deleted twice.
C14_BuildReleasesStages ==
  /\ gl.shaders = {}
  /\ \A h \in gl.badDeletes : h.site \notin {"vertex", "fragment"}

C14_Witness ==
  /\ Switched
  /\ Len(last.builds) = 2
  /\ last.builds[1].result = "link"
  /\ last.builds[2].result = "link"
  /\ gl.shaders = {}

\* The builds of a step that failed at a stage, in the order they ran.
StageFailures(l) ==
  SelectSeq(l.builds, LAMBDA b : b.result \in {"vertex", "fragment", "link"})

\* The words by which an error message names the stage that failed.
StageTag(result) ==
  CASE result = "vertex"   -> "compile vertex shader"
    [] result = "fragment" -> "compile fragment shader"
    [] result = "link"     -> "link shader program"

\* The stages a build attempts when it ends with `result`.
StagesUpTo(result) ==
  CASE result = "vertex"   -> << "vertex" >>
    [] result = "fragment" -> << "vertex", "fragment" >>
    [] OTHER               -> << "vertex", "fragment", "link" >>

\* Each build that failed at a stage reported one error, which names the stage,
\* and stopped at that stage; a step whose last build failed leaves no program.
FailedBuildStopsAndReports ==
  /\ \A i \in 1..Len(StageFailures(last)) :
       LET b == StageFailures(last)[i]
       IN  /\ Len(b.errors) = 1
           /\ Includes(b.errors[1], StageTag(b.result))
           /\ b.stages = StagesUpTo(b.result)
  /\ (last.builds # << >> /\ last.builds[Len(last.builds)].result # "ok")
       => (programRef = NoHandle /\ gl.programs = {})

BuildReports(l) ==
  SelectSeq(l.reports,
            LAMBDA m : \E i \in 1..Len(l.builds) :
                         \E j \in 1..Len(l.builds[i].errors) : l.builds[i].errors[j] = m)

\* C16: a mount or a shader switch whose program build fails invokes the error
\* callback exactly once.
C16_FailureReportedOnce ==
  ((last.op = "mount" \/ Switched) /\ BuildFailed(last))
    => Len(BuildReports(last)) = 1

\* C17: the mount and each shader switch run the program builder exactly once
\* (when they reach it: without a context or a quad nothing is built).
C17_OneBuildPerMountOrSwitch ==
  ((last.op = "mount" \/ Switched) /\ last.builds # << >>) => Len(last.builds) = 1

\* C18: a shader switch that builds its program, made while a program is held
\* (so the quad exists), keeps the quad the mount built, the main effect's first
\* run: after the switch it is the vertex array held, the only one live, and the
\* one the drawn frames bind.
C18_SwitchKeepsQuad ==
  (SwitchedOk /\ last.before.program)
    => /\ vaoRef # NoHandle
       /\ vaoRef.run = 1
       /\ gl.vaos = {vaoRef}
       /\ \A k \in 1..Len(last.frames) :
            last.frames[k].kind = "draw" => last.frames[k].vao = vaoRef

\* C19: at most one program is live, after every step and inside it: none is
\* created while another is live, the live one is the one held (every other one
\* was deleted), none is deleted twice, and none is live after the teardown.
C19_OneProgramLive ==
  /\ Cardinality(gl.programs) <= 1
  /\ gl.overlaps = {}
  /\ gl.programs \subseteq {programRef}
  /\ \A h \in gl.badDeletes : h.site # "program"
  /\ phase = "disposed" => gl.programs = {}

C19_Witness ==
  /\ phase = "disposed"
  /\ last.op = "unmount"
  /\ last.before.program
  /\ runs = 2
  /\ gl.programs = {}
  /\ gl.badDeletes = {}

\* C20: after a resize notification the canvas has the container's new size and
\* the viewport is (0, 0, W2, H2); every frame drawn afterwards uploads
\* u_resolution = (W2, H2), the size of the container at that frame, with the
\* viewport still matching.
C20_ResizeReachesNextFrame ==
  /\ last.op = "resize"
       => /\ canvas = parent
          /\ gl.viewport = << 0, 0, parent.width, parent.height >>
  /\ \A k \in 1..Len(last.frames) :
       last.frames[k].kind = "draw"
         => /\ last.frames[k].uploads["u_resolution"]
                 = [type |-> "vec2", value |-> << parent.width, parent.height >>]
            /\ gl.viewport = << 0, 0, parent.width, parent.height >>

C20_Witness ==
  /\ last.op = "frame"
  /\ last.frames[1].kind = "draw"
  /\ parent = [width |-> 400, height |-> 300]
  /\ last.frames[1].uploads["u_resolution"].value = << 400, 300 >>
  /\ gl.viewport = << 0, 0, 400, 300 >>

C22_PointerEventMovesOnlyTarget ==
  [][/\ last'.op \in {"mousemove", "touchmove"}
          => /\ UNCHANGED << currentMouseRef, programRef, vaoRef, startTimeRef,
                             hasErrorRef, pending, animationFrameRef, gl, glRef,
                             canvas, fpsMonitorRef, error, uniformsRef,
                             showDebugRef, cleanup, overlays, runs >>
             /\ last'.builds = << >> /\ last'.reports = << >> /\ last'.frames = << >>
     /\ currentMouseRef' # currentMouseRef => last'.frames # << >>]_vars

C22_Witness ==
  /\ last.op = "touchmove"
  /\ targetMouseRef = [x |-> 0, y |-> 0]
  /\ currentMouseRef.x > 500
  /\ currentMouseRef.x < 1000
  /\ pending # {}
  /\ programRef \in gl.programs

\* C23: the pointer target stays in the unit square (0 to 1000 thousandths on
\* each axis) after any sequence of mousemove and touchmove events.
C23_TargetInUnitSquare ==
  /\ 0 <= targetMouseRef.x /\ targetMouseRef.x <= 1000
  /\ 0 <= targetMouseRef.y /\ targetMouseRef.y <= 1000

\* |a - b|
Dist(a, b) == IF a >= b THEN a - b ELSE b - a

\* The smoothing steps of the frames the last step drew, one per axis: where the
\* position was, where the target was, where the position is now.
SmoothingSteps ==
  UNION {{[from |-> last.frames[k].mouse.from.x, target |-> last.frames[k].mouse.target.x,
           to |-> last.frames[k].mouse.to.x],
          [from |-> last.frames[k].mouse.from.y, target |-> last.frames[k].mouse.target.y,
           to |-> last.frames[k].mouse.to.y]}
           : k \in {j \in 1..Len(last.frames) : last.frames[j].kind = "draw"}}

\* The step neither passes the target nor moves away from it.
NoOvershoot(m) ==
  /\ Dist(m.to, m.target) <= Dist(m.from, m.target)
  /\ (m.from <= m.target => m.to <= m.target)
  /\ (m.from >= m.target => m.to >= m.target)

\* The distance below which a tenth of the distance rounds to nothing: half a
\* unit of the arithmetic divided by the smoothing factor.
StallDistance == 1000 \div (2 * SmoothingFactor)

C25_OverlayDrawnWhenEnabled ==
  \A k \in 1..Len(last.frames) :
    (last.frames[k].kind = "draw" /\ showDebug)
      => last.frames[k].overlay = << fpsMonitorRef.currentFPS >>

\* C26: when the canvas gives no WebGL2 context, the mount reports that once and
\* builds and renders nothing, and at no time is there a vertex array, a buffer,
\* a shader, a program or a pending frame callback.
C26_NoContextReportedOnce ==
  /\ (last.op = "mount" /\ ~gl.supported)
       => /\ last.reports = << "WebGL2 is not supported in this browser" >>
          /\ error = "WebGL2 is not supported in this browser"
          /\ last.builds = << >>
          /\ last.frames = << >>
  /\ ~gl.supported
       => /\ gl.vaos = {} /\ gl.buffers = {} /\ gl.shaders = {} /\ gl.programs = {}
          /\ programRef = NoHandle /\ vaoRef = NoHandle /\ ~glRef
          /\ pending = {} /\ animationFrameRef = 0

C26_Witness ==
  /\ ~gl.supported
  /\ phase = "mounted"
  /\ last.op = "mount"
  /\ Len(last.reports) = 1
  /\ hasErrorRef
  /\ pending = {}

\* The place of a shader in the catalog, from 1.
Place(id) == findIndex(id) + 1

\* Where cycleShader(1) and cycleShader(-1) lead from each shader of the catalog.
RightOf == [id \in ShaderIds |-> cycleTarget(id, 1)]

LeftOf == [id \in ShaderIds |-> cycleTarget(id, 0 - 1)]

\* C27: the Right arrow selects the next shader of the catalog and the first
\* after the last; the Left arrow selects the previous one and the last before
\* the first; from every shader Right then Left, Left then Right, and as many
\* Rights as there are shaders lead back to it.
C27_ArrowKeysWrapAround ==
  [][/\ last'.op = "ArrowRight"
          => Place(shaderId') = (IF Place(shaderId) = Len(SHADERS) THEN 1
                                 ELSE Place(shaderId) + 1)
     /\ last'.op = "ArrowLeft"
          => Place(shaderId') = (IF Place(shaderId) = 1 THEN Len(SHADERS)
                                 ELSE Place(shaderId) - 1)
     /\ last'.op \in DOMAIN ArrowKeys
          => /\ shaderId' = cycleTarget(shaderId, ArrowKeys[last'.op])
             /\ LeftOf[RightOf[shaderId']] = shaderId'
             /\ RightOf[LeftOf[shaderId']] = shaderId'
             /\ RightOf[RightOf[RightOf[RightOf[RightOf[shaderId']]]]] = shaderId'
             /\ Len(SHADERS) = 5]_vars

C27_Witness ==
  /\ last.op = "ArrowRight"
  /\ last.changed
  /\ shaderId = "plasma"
  /\ runs = 3


\* The names the shader id declares, and the default each is declared with
DeclaredNames ==
  [id \in ShaderIds |->
     {u.name : u \in {getShaderById(id)[1].uniforms[i]
                        : i \in 1..Len(getShaderById(id)[1].uniforms)}}]

DeclaredDefaults ==
  [id \in ShaderIds |->
     [n \in DeclaredNames[id] |->
        (CHOOSE u \in {getShaderById(id)[1].uniforms[i]
                         : i \in 1..Len(getShaderById(id)[1].uniforms)}
           : u.name = n).defaultValue]]

SelectionOps == {"Digit", "ArrowLeft", "ArrowRight"}

\* C28: whatever the page did (digit keys, arrow keys, resets, sliders, the
\* debug key), the map it hands to the render core, which is the map the frame
\* loop reads, has only names the selected shader declares; and the step of a
\* selection ends with exactly the selected shader's names, each at its default.
C28_KeysAreDeclared ==
  /\ [](/\ shaderId \in ShaderIds
        /\ DOMAIN uniforms \subseteq DeclaredNames[shaderId]
        /\ uniformsRef = uniforms)
  /\ [][last'.op \in SelectionOps => uniforms' = DeclaredDefaults[shaderId']]_vars

\* a slider moved after a switch to another shader: the map is not the defaults
C28_Witness ==
  /\ last.op = "slider"
  /\ shaderId = "aurora"
  /\ uniforms # DeclaredDefaults[shaderId]
  /\ DOMAIN uniforms = DeclaredNames[shaderId]

\* C29: a reset (the R key or the reset button) leaves the selected shader's
\* declared names, each at its declared default, in the page's map and in the
\* ref the frame loop reads, and changes neither the shader id nor the debug
\* flag; a reset of the map it leaves gives that map again, and a reset after a
\* reset changes nothing.
C29_ResetRestoresDefaults ==
  [][last'.op = "reset"
       => /\ uniforms' = DeclaredDefaults[shaderId]
          /\ uniformsRef' = uniforms'
          /\ shaderId' = shaderId
          /\ showDebug' = showDebug
          /\ resetDefaults(shaderId', uniforms') = uniforms'
          /\ last.op = "reset" => uniforms' = uniforms /\ uniformsRef' = uniformsRef]_vars

\* a reset of another shader than the first while the debug flag is set
C29_Witness ==
  /\ last.op = "reset"
  /\ showDebug
  /\ shaderId = "noise"
  /\ uniforms = DeclaredDefaults["noise"]

\* The frame of the step drew normally, so updateFPSMonitor was called.
DrewFrame(l) == l.op = "refresh" /\ l.frames # << >> /\ l.frames[1].kind = "draw"

\* C30: the frame-rate history never holds more than FPS_SAMPLE_SIZE samples;
\* a frame drawn after a positive delay appends its sample, 1000 / delta, and
\* when the history was full the oldest sample is dropped for it.
C30_HistoryBounded ==
  /\ [](Len(fpsMonitorRef.samples) <= FPS_SAMPLE_SIZE)
  /\ [][DrewFrame(last') /\ now' > fpsMonitorRef.lastTime
         => fpsMonitorRef'.samples =
              (IF Len(fpsMonitorRef.samples) = FPS_SAMPLE_SIZE
                 THEN Append(Tail(fpsMonitorRef.samples),
                             1000 \div (now' - fpsMonitorRef.lastTime))
                 ELSE Append(fpsMonitorRef.samples,
                             1000 \div (now' - fpsMonitorRef.lastTime)))]_vars

\* the frame of the 31st refresh after a mount at time 0: the first sample
\* (62, of the 16 ms to the first refresh) has made room for the 31st
C30_Witness ==
  /\ DrewFrame(last)
  /\ runs = 1
  /\ startTimeRef = 0
  /\ now = RefreshTime(FPS_SAMPLE_SIZE + 1)
  /\ Len(fpsMonitorRef.samples) = FPS_SAMPLE_SIZE
  /\ Head(fpsMonitorRef.samples) = 58
  /\ fpsMonitorRef.samples[FPS_SAMPLE_SIZE] = 62

\* C31: every frame callback, also one that runs while the error flag is set,
\* updates the frame-rate estimate (the monitor's last time is the time of the
\* frame) and smooths the pointer before it branches.
C31_EveryFrameUpdatesEstimateAndPointer ==
  (last.op = "frame" /\ last.frames # << >>)
    => /\ fpsMonitorRef.lastTime = now
       /\ \A i \in 1..Len(last.frames) :
            last.frames[i].fpsUpdated /\ last.frames[i].smoothed

\* C32: a step in which render ran (a frame callback, or the first call at the
\* end of the main effect) produced one frame: a normal frame has one draw call,
\* of 6 vertices as triangles, any other frame has none; and the call left one
\* request for the next callback, the one animationFrameRef names.
C32_OneFramePerCallback ==
  last.frames # << >>
    => /\ Len(last.frames) = 1
       /\ last.frames[1].requests = 1
       /\ last.frames[1].kind = "draw"
            => last.frames[1].draws = << [mode |-> "TRIANGLES", count |-> 6] >>
       /\ last.frames[1].kind # "draw" => last.frames[1].draws = << >>
       /\ Cardinality(pending) = 1
       /\ \A p \in pending : p.run = animationFrameRef

\* a frame callback drew a normal frame and asked for the next one
C32_Witness ==
  /\ last.op = "frame"
  /\ last.frames[1].kind = "draw"
  /\ last.frames[1].draws = << [mode |-> "TRIANGLES", count |-> 6] >>
  /\ pending # {}
  /\ now > 0

\* C33: at most one frame callback is pending, whatever the order of mount,
\* shader buttons, slider, D key, resize, pointer events, frames and unmount.
C33_OneLoop == Cardinality(pending) <= 1

\* a frame of the third run of the main effect, after the debug key, a resize, a
\* pointer event and a slider: its request is the only one pending
C33_Witness ==
  /\ last.op = "frame"
  /\ runs = 3
  /\ showDebug
  /\ canvas = [width |-> 400, height |-> 300]
  /\ targetMouseRef # [x |-> 500, y |-> 500]
  /\ uniforms # DeclaredDefaults[shaderId]
  /\ Cardinality(pending) = 1

\* C34: the program and the vertex array a normal frame draws with are live, and
\* so is every program and vertex array the component holds; only a mounted
\* component runs a frame callback, and none is pending once it is disposed.
C34_DrawsWithLiveObjects ==
  /\ \A k \in 1..Len(last.frames) :
       last.frames[k].kind = "draw"
         => /\ last.frames[k].live
            /\ last.frames[k].program # NoHandle
            /\ last.frames[k].vao # NoHandle
  /\ programRef # NoHandle => programRef \in gl.programs
  /\ vaoRef # NoHandle => vaoRef \in gl.vaos
  /\ last.op = "frame" => phase = "mounted"
  /\ phase = "disposed" => pending = {}

\* a normal frame of the second run of the main effect: the program and the
\* vertex array of the first run are gone, it draws with those of the second
C34_Witness ==
  /\ last.op = "frame"
  /\ runs = 2
  /\ last.frames[1].kind = "draw"
  /\ last.frames[1].program = programRef
  /\ last.frames[1].vao = vaoRef
  /\ programRef.run = 2
  /\ gl.programs = {programRef}

\* C35: while a program is held the error flag is clear; a step that sets the
\* flag reported an error and ends without a program, and a step that clears it
\* ended with a successful build, whose program is then held.
C35_ProgramImpliesNoError ==
  /\ [](programRef # NoHandle => ~hasErrorRef)
  /\ [][/\ (~hasErrorRef /\ hasErrorRef')
             => (programRef' = NoHandle /\ last'.reports # << >>)
        /\ (hasErrorRef /\ ~hasErrorRef')
             => /\ last'.builds # << >>
                /\ last'.builds[Len(last'.builds)].result = "ok"
                /\ programRef' # NoHandle]_vars

\* a switch made with the flag set whose builds succeed: the flag is clear and
\* a program is held
C35_Witness ==
  /\ last.op = "select"
  /\ last.before.hasErrorRef
  /\ ~hasErrorRef
  /\ programRef # NoHandle

NotFoundMessage(id) == "Shader not found: " \o id

\* C36: a build for a shader id that is not in the catalog attempts no stage and
\* reports "Shader not found: <id>"; after a step that built for such an id the
\* error flag is set, the error shown is that message, and no program is held or
\* live (the one held before was destroyed) and no stage object exists.  A build
\* for an id of the catalog never ends that way.
C36_UnknownIdFailsTheBuild ==
  /\ \A i \in 1..Len(last.builds) :
       IF last.builds[i].shader \in ShaderIds
         THEN last.builds[i].result # "notfound"
         ELSE /\ last.builds[i].result = "notfound"
              /\ last.builds[i].stages = << >>
              /\ last.builds[i].errors = << NotFoundMessage(last.builds[i].shader) >>
  /\ (last.builds # << >> /\ shaderId \notin ShaderIds)
       => /\ hasErrorRef
          /\ error = NotFoundMessage(shaderId)
          /\ programRef = NoHandle
          /\ gl.programs = {}
          /\ gl.shaders = {}

\* the component drew with a program and was then given the unknown id
C36_Witness ==
  /\ last.op = "shaderId"
  /\ last.before.program
  /\ ~last.before.hasErrorRef
  /\ shaderId = MissingId
  /\ last.builds # << >>
  /\ hasErrorRef
  /\ programRef = NoHandle

\* C37: the page's shader id is always an id of the catalog, whatever keys and
\* buttons were used; and a call of handleShaderSelect with an id that is not in
\* the catalog changes neither the shader id nor the parameter values nor the
\* error shown, and builds nothing.
C37_SelectionStaysInCatalog ==
  /\ [](shaderId \in ShaderIds)
  /\ [][last'.op = "unknown"
          => /\ shaderId' = shaderId
             /\ uniforms' = uniforms
             /\ error' = error
             /\ last'.builds = << >>]_vars

\* a request for the unknown id while the error of a failed build is shown
C37_Witness ==
  /\ last.op = "unknown"
  /\ error # "null"
  /\ shaderId \in ShaderIds
  /\ uniforms = DeclaredDefaults[shaderId]

\* C38: at most one debug canvas is attached to the container, the one of the
\* run of the main effect whose cleanup is registered, and none is attached once
\* the component is disposed.
C38_OneOverlay ==
  /\ Cardinality(overlays) <= 1
  /\ overlays # {} => (cleanup.registered /\ cleanup.debugCanvas
                        /\ overlays = {cleanup.run})
  /\ phase = "disposed" => overlays = {}

\* the debug canvas of the third run of the main effect is the only one
C38_Witness ==
  /\ phase = "mounted"
  /\ showDebug
  /\ runs = 3
  /\ overlays = {3}
  /\ last.op = "select"
  /\ last.before.loop

=============================================================================
